---- MODULE Spec2Model ----
(***************************************************************************)
(* A model of nevergrad/functions/ml/mlfunctionlib.py: the MLTuning        *)
(* benchmark (construction, lazy dataset materialization, k-fold           *)
(* splitting, and the two evaluation entry points).                        *)
(*                                                                         *)
(* Rows are identified by their position: for a real-world dataset by the  *)
(* position in the permutation train_test_split draws (the test rows come  *)
(* first), for a synthetic dataset by the position in the shuffled grid.   *)
(* The regressors are external: a fit/predict/mean_squared_error triple is *)
(* recorded as a term naming the estimator instance, its constructor       *)
(* arguments, and the rows and labels it was given.                        *)
(***************************************************************************)
EXTENDS Integers, Sequences, FiniteSets, TLC

----------------------------------------------------------------------------
(* Bounds of the model *)

\* number of evaluation calls made on one instance
MaxCalls == 3
\* number of rows of the (external) diabetes dataset, scaled down
DiabetesRows == 25
\* number of rows of the (external) boston dataset, scaled down
BostonRows == 31

----------------------------------------------------------------------------
(* Python values *)

\* a Python value: its type and its literal
Val(t, r) == [type |-> t, repr |-> r]
PyInt(r) == Val("int", r)
PyFloat(r) == Val("float", r)
PyStr(r) == Val("str", r)
PyBool(b) == Val("bool", IF b THEN "True" ELSE "False")

\* isinstance(v, int)
IsInstanceInt(v) == v.type = "int"

\* truth value of a bool
Truthy(v) == v.type = "bool" /\ v.repr = "True"

\* tp.Optional[int]: None is the empty tuple, an int d is <<d>>
NoDimension == <<>>
Dim(d) == <<d>>

\* the empty dict
EmptyDict == [k \in {} |-> PyStr("")]

\* dict.update / dict(a, **b) / {**a, **b}: the entries of b win
DictUpdate(a, b) ==
  [k \in (DOMAIN a) \cup (DOMAIN b) |-> IF k \in DOMAIN b THEN b[k] ELSE a[k]]

\* strings whose characters the program inspects are sequences of characters
S_artificial == <<"a","r","t","i","f","i","c","i","a","l">>
S_artificialcos == S_artificial \o <<"c","o","s">>
S_artificialsquare == S_artificial \o <<"s","q","u","a","r","e">>
S_artificialcoos == S_artificial \o <<"c","o","o","s">>
S_diabetes == <<"d","i","a","b","e","t","e","s">>
S_boston == <<"b","o","s","t","o","n">>

\* sub in s
Contains(sub, s) ==
  \E i \in 0..(Len(s) - Len(sub)) : SubSeq(s, i + 1, i + Len(sub)) = sub

\* s.startswith(pre)
StartsWith(s, pre) ==
  Len(s) >= Len(pre) /\ SubSeq(s, 1, Len(pre)) = pre

----------------------------------------------------------------------------
(* Arrays: rows of one population.  idx enumerates the rows by position;  *)
(* an array that is a whole population of its own, no row of which is in    *)
(* any other array, is given by its number of rows alone.                   *)

Rows(pop, idx) == [pop |-> pop, idx |-> idx, nrows |-> Cardinality(idx)]
Population(pop, n) == [pop |-> pop, idx |-> {}, nrows |-> n]
\* np.array([])
EmptyArray == Rows("empty", {})
\* an attribute that is declared but not assigned
Unset == Rows("unset", {})
UnsetLabels == "unset"

\* ndarray.size is zero
SizeIsZero(a) == a.nrows = 0

\* the inputs of the model
Regressors == {"decision_tree_depth", "decision_tree", "mlp", "any", "svm"}
\* data_dimension: None, or a positive number of columns
Dimensions == {NoDimension, Dim(3), Dim(7)}
Datasets == {S_diabetes, S_boston, S_artificial, S_artificialcos,
             S_artificialsquare, S_artificialcoos}

ArgNames == {"depth", "criterion", "min_samples_split", "solver", "activation",
             "alpha", "learning_rate", "regressor", "noise_free"}

----------------------------------------------------------------------------
(* MLTuning.__init__ *)

\* self.num_data: default for artificial function
NumData == 120
\* self._cross_val_num: number of cross validation
CrossValNum == 10
\* number of samples of the synthetic test set
NumTestSamples == 60000

\* the attributes of a new object, as assigned before the dimension check
NewSelf(reg, dim, ds, of) ==
  [regressor |-> reg, data_dimension |-> dim, dataset |-> ds, overfitter |-> of,
   num_data |-> NumData, cross_val_num |-> CrossValNum,
   X |-> EmptyArray, y |-> UnsetLabels,
   X_train_cv |-> <<>>, X_valid_cv |-> <<>>, y_train_cv |-> <<>>, y_valid_cv |-> <<>>,
   X_train |-> Unset, y_train |-> UnsetLabels, X_test |-> Unset, y_test |-> UnsetLabels,
   params |-> EmptyDict, evalparams |-> EmptyDict]

\* assert bool("artificial" in dataset) == bool(data_dimension is not None)
DimensionCheckOneWay(ds, dim) == Contains(S_artificial, ds) => (dim # NoDimension)
DimensionCheck(ds, dim) == Contains(S_artificial, ds) = (dim # NoDimension)

\* params: the parameters the optimization fixes, per regressor
Params(reg) ==
  CASE reg = "decision_tree_depth" ->
         [noise_free |-> PyBool(FALSE), criterion |-> PyStr("mse"),
          min_samples_split |-> PyFloat("1e-05"), regressor |-> PyStr("decision_tree"),
          alpha |-> PyFloat("1.0"), learning_rate |-> PyStr("no"),
          activation |-> PyStr("no"), solver |-> PyStr("no")]
    [] reg = "any" ->
         [noise_free |-> PyBool(FALSE)]
    [] reg = "decision_tree" ->
         [noise_free |-> PyBool(FALSE), alpha |-> PyFloat("1.0"),
          learning_rate |-> PyStr("no"), regressor |-> PyStr("decision_tree"),
          activation |-> PyStr("no"), solver |-> PyStr("no")]
    [] reg = "mlp" ->
         [noise_free |-> PyBool(FALSE), regressor |-> PyStr("mlp"), depth |-> PyInt("-3"),
          criterion |-> PyStr("no"), min_samples_split |-> PyFloat("0.1")]

\* evalparams as the branches of __init__ leave it (empty: not specified)
BranchEvalParams(reg) ==
  IF reg = "decision_tree"
  THEN DictUpdate(Params(reg), [criterion |-> PyStr("mse"),
                                min_samples_split |-> PyFloat("1e-05")])
  ELSE EmptyDict

\* build eval params if not specified; for the evaluation we remove the noise
\* (unless overfitter)
EvalParams(reg, of) ==
  LET evalparams == IF BranchEvalParams(reg) = EmptyDict
                    THEN Params(reg) ELSE BranchEvalParams(reg)
  IN  DictUpdate(evalparams, [noise_free |-> PyBool(~of)])

\* the problem types __init__ knows
KnownRegressors == {"decision_tree_depth", "any", "decision_tree", "mlp"}

\* the outcome of MLTuning(reg, dim, ds, of)
Construct(reg, dim, ds, of) ==
  IF ~DimensionCheck(ds, dim)
  THEN [self |-> NewSelf(reg, dim, ds, of), error |-> "dimension_mismatch"]
  ELSE IF reg \notin KnownRegressors
  THEN [self |-> NewSelf(reg, dim, ds, of), error |-> "undefined_problem_type"]
  ELSE [self |-> [NewSelf(reg, dim, ds, of) EXCEPT
                    !.params = Params(reg), !.evalparams = EvalParams(reg, of)],
        error |-> "none"]

----------------------------------------------------------------------------
(* MLTuning.make_dataset *)

\* sklearn.datasets.load_*: the number of rows of a real-world dataset
LoadRows(ds) == IF ds = S_boston THEN BostonRows ELSE DiabetesRows

\* train_test_split(test_size=0.5): n_test = ceil(0.5 * n), n_train = n - n_test;
\* the test rows are the first n_test of the permutation, the training rows the rest
NumTest(n) == (n + 1) \div 2
TestRowsOfSplit(n) == 0..(NumTest(n) - 1)
TrainRowsOfSplit(n) == NumTest(n)..(n - 1)

\* KFold(n_splits=k) without shuffling: the first n % k folds have n // k + 1
\* samples, the others n // k, taken contiguously
FoldStart(n, k, i) == i * (n \div k) + (IF i < n % k THEN i ELSE n % k)
FoldSize(n, k, i) == (n \div k) + (IF i < n % k THEN 1 ELSE 0)
KFoldValidIndex(n, k, i) == FoldStart(n, k, i)..(FoldStart(n, k, i) + FoldSize(n, k, i) - 1)
KFoldTrainIndex(n, k, i) == (0..(n - 1)) \ KFoldValidIndex(n, k, i)

\* X_train[index]: the rows of the training half at the given positions
TakeTrain(n, index) == {NumTest(n) + j : j \in index}

\* np.arange(self.num_data) % self._cross_val_num != cv  and  == cv
MaskTrainShifted(num, k, cv) == {r \in 0..(num - 1) : r % k # (cv + 1) % k}
MaskTrain(num, k, cv) == {r \in 0..(num - 1) : r % k # cv}
MaskValid(num, k, cv) == {r \in 0..(num - 1) : r % k = cv}

\* target_function = {...}[dataset]
TargetNames == {S_artificial, S_artificialcos, S_artificialsquare}
TargetFunction(ds) ==
  CASE ds = S_artificial -> "sin"
    [] ds = S_artificialcos -> "cos"
    [] ds = S_artificialsquare -> "square"

\* the real-world branch, from the load on
MakeRealWorld(s) ==
  LET n == LoadRows(s.dataset)
      nt == n - NumTest(n)
      k == s.cross_val_num
      s1 == [s EXCEPT !.X = Rows("data", 0..(n - 1)), !.y = "data",
                      !.X_train = Rows("data", TrainRowsOfSplit(n)),
                      !.X_test = Rows("data", TestRowsOfSplit(n)),
                      !.y_train = "data", !.y_test = "data",
                      !.num_data = nt]
  IN  IF nt < k
      THEN \* KFold.split: more splits than samples
           [self |-> s1, error |-> "ValueError"]
      ELSE [self |-> [s1 EXCEPT
              !.X_train_cv = @ \o [i \in 1..k |->
                                Rows("data", TakeTrain(n, KFoldTrainIndex(nt, k, i - 1)))],
              !.y_train_cv = @ \o [i \in 1..k |-> "data"],
              !.X_valid_cv = @ \o [i \in 1..k |->
                                Rows("data", TakeTrain(n, KFoldValidIndex(nt, k, i - 1)))],
              !.y_valid_cv = @ \o [i \in 1..k |-> "data"]],
            error |-> "none"]

\* the synthetic branch, from the assignment of self.X on
MakeSynthetic(s) ==
  LET d == s.data_dimension[1]
      k == s.cross_val_num
      rows == (s.num_data * d) \div d
      target == TargetFunction(s.dataset)
      s1 == [s EXCEPT !.X = Rows("grid", 0..(rows - 1)), !.y = "sin",
                      !.X_train = Rows("grid", 0..(rows - 1)), !.y_train = "sin",
              !.X_train_cv = @ \o [i \in 1..k |->
                                Rows("grid", MaskTrain(s.num_data, k, i - 1))],
              !.y_train_cv = @ \o [i \in 1..k |-> target],
              !.X_valid_cv = @ \o [i \in 1..k |->
                                Rows("grid", MaskValid(s.num_data, k, i - 1))],
              !.y_valid_cv = @ \o [i \in 1..k |-> target]]
  IN  IF NumTestSamples % d # 0
      THEN \* X_test.reshape(-1, data_dimension)
           [self |-> s1, error |-> "ValueError"]
      ELSE [self |-> [s1 EXCEPT
                        !.X_test = Population("testgrid", NumTestSamples \div d),
                        !.y_test = target],
            error |-> "none"]

\* make_dataset(self.data_dimension, self.dataset): the object it leaves and the
\* exception it raises.  The dimensions of the model are positive, so that the
\* step of the grid is defined and the grid has num_data * data_dimension points.
MakeDataset(s) ==
  IF ~StartsWith(s.dataset, S_artificial)
  THEN IF s.dataset \notin {S_boston, S_diabetes}
       THEN [self |-> s, error |-> "AssertionError"]
       ELSE IF s.data_dimension # NoDimension
       THEN [self |-> s, error |-> "AssertionError"]
       ELSE MakeRealWorld(s)
  ELSE IF s.data_dimension = NoDimension
       THEN [self |-> s, error |-> "AssertionError"]
       ELSE IF s.dataset \notin TargetNames
       THEN [self |-> s, error |-> "KeyError"]
       ELSE MakeSynthetic(s)

----------------------------------------------------------------------------
(* MLTuning._ml_parametrization *)

\* if not self.X.size: lazy initialization
NeedsInitAlways(s) == TRUE
NeedsInit(s) == SizeIsZero(s.X)

\* the estimator the call builds from its arguments
NewRegressor(a) ==
  IF a.regressor = PyStr("decision_tree")
  THEN [class |-> "DecisionTreeRegressor",
        kwargs |-> [max_depth |-> a.depth, criterion |-> a.criterion,
                    min_samples_split |-> a.min_samples_split]]
  ELSE [class |-> "MLPRegressor",
        kwargs |-> [alpha |-> a.alpha, activation |-> a.activation,
                    solver |-> a.solver, learning_rate |-> a.learning_rate]]

\* the one estimator object of a call
RegrInstance == 1

\* an estimator whose fit the model library may reject, depending on its version
MayRejectFit(regr) ==
  regr.class = "DecisionTreeRegressor" /\ ~IsInstanceInt(regr.kwargs.max_depth)

\* whether the fit raises, for the keywords a call binds
FitOutcomes(bound) ==
  IF DOMAIN bound = ArgNames /\ MayRejectFit(NewRegressor(bound))
  THEN BOOLEAN ELSE {FALSE}

\* regr.fit(fitX, fity); regr.predict(predX); mean_squared_error(ytrue, pred)
Evaluation(inst, regr, fitX, fity, predX, ytrue, stage) ==
  [inst |-> inst, regr |-> regr, fitX |-> fitX, fity |-> fity,
   predX |-> predX, ytrue |-> ytrue, stage |-> stage]

NoResult == [terms |-> <<>>, div |-> 0]

Min(a, b) == IF a < b THEN a ELSE b

\* the number of tuples zip() yields over the four fold lists
ZipLen(s) ==
  Min(Min(Len(s.X_train_cv), Len(s.y_train_cv)), Min(Len(s.X_valid_cv), Len(s.y_valid_cv)))

\* one turn of the cross-validation loop
FoldEvalNextFold(s, regr, i) ==
  Evaluation(RegrInstance, regr, s.X_train_cv[i], s.y_train_cv[i],
             s.X_valid_cv[(i % ZipLen(s)) + 1], s.y_valid_cv[(i % ZipLen(s)) + 1], "scored")
FoldEval(s, regr, i) ==
  Evaluation(RegrInstance, regr, s.X_train_cv[i], s.y_train_cv[i],
             s.X_valid_cv[i], s.y_valid_cv[i], "scored")

\* return result / self._cross_val_num, result being the sum over the loop's turns
CrossValResultUndivided(s, n) == [terms |-> [i \in 1..n |-> i], div |-> 1]
CrossValResult(s, n) == [terms |-> [i \in 1..n |-> i], div |-> s.cross_val_num]

\* the body of _ml_parametrization once its arguments are bound to a
Body(s, a, fitRaises) ==
  LET made == NeedsInit(s)
      init == IF made THEN MakeDataset(s) ELSE [self |-> s, error |-> "none"]
      s1 == init.self
      regr == NewRegressor(a)
      Out(e, mode, evals, result) ==
        [self |-> s1, outcome |-> e, made |-> made, mode |-> mode,
         evals |-> evals, result |-> result]
  IN  IF init.error # "none"
      THEN Out(init.error, "none", <<>>, NoResult)
      ELSE IF a.regressor \notin {PyStr("decision_tree"), PyStr("mlp")}
      THEN Out("ValueError", "none", <<>>, NoResult)
      ELSE IF Truthy(a.noise_free)
      THEN IF \/ s1.X_train = Unset \/ s1.y_train = UnsetLabels
              \/ s1.X_test = Unset \/ s1.y_test = UnsetLabels
           THEN Out("AttributeError", "heldout", <<>>, NoResult)
           ELSE IF fitRaises /\ MayRejectFit(regr)
           THEN Out("FitError", "heldout",
                    <<Evaluation(RegrInstance, regr, s1.X, s1.y, Unset, UnsetLabels,
                                 "fit_raised")>>, NoResult)
           ELSE Out("ok", "heldout",
                    <<Evaluation(RegrInstance, regr, s1.X, s1.y, s1.X_test, s1.y_test,
                                 "scored")>>,
                    [terms |-> <<1>>, div |-> 1])
      ELSE IF ZipLen(s1) > 0 /\ ~IsInstanceInt(a.depth)
           THEN Out("AssertionError", "cv", <<>>, NoResult)
           ELSE Out("ok", "cv", [i \in 1..ZipLen(s1) |-> FoldEval(s1, regr, i)],
                    CrossValResult(s1, ZipLen(s1)))

\* a call of _ml_parametrization(**kw): every parameter is required
MlParametrization(s, kw, fitRaises) ==
  IF DOMAIN kw # ArgNames
  THEN [self |-> s, outcome |-> "TypeError", made |-> FALSE, mode |-> "none",
        evals |-> <<>>, result |-> NoResult]
  ELSE Body(s, kw, fitRaises)

----------------------------------------------------------------------------
(* The two entry points *)

\* partial(self._ml_parametrization, **params)(**kwargs): the call's keywords win
ObjectiveKwargs(s, kwargs) == DictUpdate(s.params, kwargs)

\* kwargs.update(self._evalparams)
EvaluationKwargsCallerWins(s, kwargs) == DictUpdate(s.evalparams, kwargs)
EvaluationKwargs(s, kwargs) == DictUpdate(kwargs, s.evalparams)

----------------------------------------------------------------------------
(* The inputs: samples of the search spaces and of what a caller may pass *)

Depths == {PyInt("5")}
Criteria == {PyStr("mse"), PyStr("mae")}
MinSamplesSplits == {PyFloat("0.5")}
RegressorChoices == {PyStr("mlp"), PyStr("decision_tree")}
Activations == {PyStr("relu")}
Solvers == {PyStr("adam")}
LearningRates == {PyStr("constant")}
Alphas == {PyFloat("0.001")}

\* the configurations of the parametrization of each regressor
SearchSpace(reg) ==
  CASE reg = "decision_tree_depth" -> {[depth |-> d] : d \in Depths}
    [] reg = "any" ->
         {[depth |-> d, criterion |-> c, min_samples_split |-> m, regressor |-> r,
           activation |-> a, solver |-> so, learning_rate |-> l, alpha |-> al] :
            d \in Depths, c \in Criteria, m \in MinSamplesSplits, r \in RegressorChoices,
            a \in Activations, so \in Solvers, l \in LearningRates, al \in Alphas}
    [] reg = "decision_tree" ->
         {[depth |-> d, criterion |-> c, min_samples_split |-> m,
           regressor |-> PyStr("decision_tree")] :
            d \in Depths, c \in Criteria, m \in MinSamplesSplits}
    [] reg = "mlp" ->
         {[activation |-> a, solver |-> so, regressor |-> PyStr("mlp"),
           learning_rate |-> l, alpha |-> al] :
            a \in Activations, so \in Solvers, l \in LearningRates, al \in Alphas}
    [] OTHER -> {}

\* keywords a caller may add to a configuration
FloatDepth == [depth |-> PyFloat("5.5")]
CallerExtras ==
  {EmptyDict, FloatDepth, [noise_free |-> PyBool(TRUE)], [noise_free |-> PyBool(FALSE)],
   [criterion |-> PyStr("mae"), depth |-> PyInt("7"), solver |-> PyStr("sgd"),
    noise_free |-> PyBool(TRUE)],
   [regressor |-> PyStr("svm")]}

ObjectiveInputs(reg) ==
  {DictUpdate(c, e) : c \in SearchSpace(reg), e \in {EmptyDict, FloatDepth}}

ReportInputs(reg) ==
  {DictUpdate(c, e) : c \in SearchSpace(reg), e \in CallerExtras} \cup {EmptyDict}

----------------------------------------------------------------------------
(* The state machine: one MLTuning object and the calls made on it *)

VARIABLES
  phase,      \* "new": not constructed; "built"; "ctor_failed": __init__ raised
  ctorError,  \* what __init__ raised
  self,       \* the attributes of the object
  lastCall,   \* the last evaluation call: what was passed, what ran, what came back
  nCalls,     \* number of evaluation calls so far
  makeRuns    \* number of runs of make_dataset so far

vars == <<phase, ctorError, self, lastCall, nCalls, makeRuns>>

NoCall ==
  [entry |-> "none", posargs |-> 0, kwargs |-> EmptyDict, bound |-> EmptyDict,
   outcome |-> "none", made |-> FALSE, mode |-> "none", evals |-> <<>>,
   result |-> NoResult]

Init ==
  /\ phase = "new"
  /\ ctorError = "none"
  /\ self = NewSelf("", NoDimension, <<>>, FALSE)
  /\ lastCall = NoCall
  /\ nCalls = 0
  /\ makeRuns = 0

\* MLTuning(regressor, data_dimension, dataset, overfitter)
New(reg, dim, ds, of) ==
  /\ phase = "new"
  /\ LET c == Construct(reg, dim, ds, of)
     IN  /\ self' = c.self
         /\ ctorError' = c.error
         /\ phase' = IF c.error = "none" THEN "built" ELSE "ctor_failed"
  /\ UNCHANGED <<lastCall, nCalls, makeRuns>>

\* the effect of an evaluation call that binds the keywords bound
Evaluate(entry, posargs, kwargs, bound, fitRaises) ==
  LET r == MlParametrization(self, bound, fitRaises)
  IN  /\ self' = r.self
      /\ lastCall' = [entry |-> entry, posargs |-> posargs, kwargs |-> kwargs,
                      bound |-> bound, outcome |-> r.outcome, made |-> r.made,
                      mode |-> r.mode, evals |-> r.evals, result |-> r.result]
      /\ makeRuns' = makeRuns + (IF r.made THEN 1 ELSE 0)
      /\ nCalls' = nCalls + 1
      /\ UNCHANGED <<phase, ctorError>>

\* the objective: self.function(**kwargs)
Objective(kwargs, fitRaises) ==
  /\ phase = "built"
  /\ nCalls < MaxCalls
  /\ Evaluate("objective", 0, kwargs, ObjectiveKwargs(self, kwargs), fitRaises)

\* the report: self.evaluation_function(*args, **kwargs)
Report(posargs, kwargs, fitRaises) ==
  /\ phase = "built"
  /\ nCalls < MaxCalls
  /\ IF posargs # 0
     THEN \* assert not args
          /\ lastCall' = [NoCall EXCEPT !.entry = "report", !.posargs = posargs,
                                        !.kwargs = kwargs, !.outcome = "AssertionError"]
          /\ nCalls' = nCalls + 1
          /\ UNCHANGED <<phase, ctorError, self, makeRuns>>
     ELSE Evaluate("report", 0, kwargs, EvaluationKwargs(self, kwargs), fitRaises)

Next ==
  \/ \E reg \in Regressors, dim \in Dimensions, ds \in Datasets, of \in BOOLEAN :
       New(reg, dim, ds, of)
  \/ \E kwargs \in ObjectiveInputs(self.regressor) :
       \E fitRaises \in FitOutcomes(ObjectiveKwargs(self, kwargs)) :
         Objective(kwargs, fitRaises)
  \/ \E kwargs \in ReportInputs(self.regressor) :
       \E fitRaises \in FitOutcomes(EvaluationKwargs(self, kwargs)) :
         Report(0, kwargs, fitRaises)
  \/ \E kwargs \in {EmptyDict} : Report(1, kwargs, FALSE)

Spec == Init /\ [][Next]_vars

----------------------------------------------------------------------------
(* Properties *)

\* two arrays share no row
Disjoint(a, b) == a.pop # b.pop \/ a.idx \cap b.idx = {}

\* the dataset names the program treats as synthetic when it builds the data
IsSynthetic(ds) == StartsWith(ds, S_artificial)

\* the last call ran cross-validation to the end
CrossValidated == lastCall.mode = "cv" /\ lastCall.outcome = "ok"

\* C1: a held-out report call (overfitter=false) fits on exactly the rows of the
\* training pool, and those rows are disjoint from the rows the error is measured on.
C1_HeldOutFitsTrainingPoolOnly ==
  (lastCall.entry = "report" /\ ~self.overfitter /\ lastCall.mode = "heldout"
     /\ lastCall.evals # <<>>)
  => /\ lastCall.evals[1].fitX = self.X_train
     /\ Disjoint(lastCall.evals[1].fitX, self.X_test)

\* C2: once the folds exist there are K of them, and in every fold the training rows
\* and the validation rows share no row and together are the training pool.
C2_FoldsPartitionTrainingPool ==
  self.X_train_cv # <<>> =>
    /\ Len(self.X_train_cv) = CrossValNum
    /\ Len(self.X_valid_cv) = CrossValNum
    /\ \A i \in 1..CrossValNum :
         /\ self.X_train_cv[i].pop = self.X_train.pop
         /\ self.X_valid_cv[i].pop = self.X_train.pop
         /\ self.X_train_cv[i].idx \cap self.X_valid_cv[i].idx = {}
         /\ self.X_train_cv[i].idx \cup self.X_valid_cv[i].idx = self.X_train.idx

C2_Witness ==
  /\ Len(self.X_train_cv) = CrossValNum
  /\ self.X_train.pop = "grid"
  /\ \A i \in 1..CrossValNum : self.X_valid_cv[i].idx # {}

\* C3: on an overfitter instance, a report call on a configuration of the search
\* space binds the same full parameter set as the objective call on it.
C3_OverfitterReportEqualsObjective ==
  (self.overfitter /\ lastCall.entry = "report" /\ lastCall.posargs = 0
     /\ lastCall.kwargs \in SearchSpace(self.regressor))
  => lastCall.bound = ObjectiveKwargs(self, lastCall.kwargs)

\* C4: a report call runs with noise_free = not overfitter and with every field of
\* the construction-time evaluation configuration, whatever the caller passes.
C4_ReportForcesEvalParams ==
  (lastCall.entry = "report" /\ lastCall.posargs = 0) =>
    /\ \A k \in DOMAIN self.evalparams :
         k \in DOMAIN lastCall.bound /\ lastCall.bound[k] = self.evalparams[k]
    /\ lastCall.bound.noise_free = PyBool(~self.overfitter)
    /\ lastCall.mode # "none" =>
         lastCall.mode = (IF self.overfitter THEN "cv" ELSE "heldout")

C4_Witness ==
  /\ lastCall.entry = "report"
  /\ lastCall.outcome = "ok"
  /\ self.overfitter
  /\ "noise_free" \in DOMAIN lastCall.kwargs
  /\ lastCall.kwargs.noise_free = PyBool(TRUE)
  /\ lastCall.mode = "cv"
  /\ "criterion" \in DOMAIN lastCall.kwargs
  /\ "criterion" \in DOMAIN self.evalparams
  /\ lastCall.kwargs.criterion # self.evalparams.criterion

\* C5: a cross-validated call returns the sum of the errors of the stored folds, one
\* per fold, divided by the number of stored folds, which is K = 10.
C5_CrossValIsMeanOfKFolds ==
  CrossValidated =>
    /\ Len(self.X_train_cv) = CrossValNum
    /\ Len(lastCall.evals) = Len(self.X_train_cv)
    /\ lastCall.result.terms = [i \in 1..Len(self.X_train_cv) |-> i]
    /\ lastCall.result.div = Len(self.X_train_cv)
    /\ \A i \in 1..Len(lastCall.evals) : lastCall.evals[i].stage = "scored"

C5_Witness ==
  /\ CrossValidated
  /\ lastCall.entry = "objective"
  /\ Len(lastCall.result.terms) = CrossValNum

\* C6: construction fails on the dimension check exactly when
\* (dataset is synthetic) # (dimension is not None).
C6_ConstructionDimensionCheck ==
  phase # "new" =>
    ((ctorError = "dimension_mismatch")
       <=> (IsSynthetic(self.dataset) # (self.data_dimension # NoDimension)))

C6_Witness ==
  /\ phase = "ctor_failed"
  /\ ctorError = "dimension_mismatch"
  /\ self.dataset = S_artificial
  /\ self.data_dimension = NoDimension

\* C7: an evaluation that reaches the model layer with a non-integer depth fails
\* with the type violation before any fit.
C7_NonIntegerDepthFailsBeforeFit ==
  (lastCall.mode # "none" /\ ~IsInstanceInt(lastCall.bound.depth))
  => (lastCall.outcome = "AssertionError" /\ lastCall.evals = <<>>)

\* C8 (as stated): in a cross-validated call no estimator instance serves two folds.
C8_FreshRegressorPerFold ==
  CrossValidated =>
    \A i, j \in 1..Len(lastCall.evals) :
      i # j => lastCall.evals[i].inst # lastCall.evals[j].inst

\* C8 (amended): a cross-validated call uses one estimator instance for all folds,
\* fitted anew on each fold's training subset before it predicts on that same
\* fold's validation subset.
C8_OneRegressorRefittedPerFold ==
  CrossValidated =>
    \A i \in 1..Len(lastCall.evals) :
      /\ lastCall.evals[i].inst = lastCall.evals[1].inst
      /\ lastCall.evals[i].regr = lastCall.evals[1].regr
      /\ lastCall.evals[i].fitX = self.X_train_cv[i]
      /\ lastCall.evals[i].fity = self.y_train_cv[i]
      /\ lastCall.evals[i].predX = self.X_valid_cv[i]
      /\ lastCall.evals[i].ytrue = self.y_valid_cv[i]

C8_Witness ==
  /\ CrossValidated
  /\ Len(lastCall.evals) = CrossValNum
  /\ lastCall.evals[CrossValNum].inst = lastCall.evals[1].inst

C10_MaterializationAllOrNothing ==
  phase = "built" =>
    \/ /\ SizeIsZero(self.X)
       /\ self.X_train_cv = <<>> /\ self.X_valid_cv = <<>>
       /\ self.X_test.pop = "unset"
    \/ /\ ~SizeIsZero(self.X)
       /\ Len(self.X_train_cv) = CrossValNum /\ Len(self.X_valid_cv) = CrossValNum
       /\ self.X_test.pop # "unset"

====
